---- MODULE Spec2Model ----
(***************************************************************************)
(* corona.py: a command-line script that parses its range options, fetches *)
(* an outbreak table and a news list (or reads them from a cache file),    *)
(* and prints statistics.  The script is one top-to-bottom run; pc is the  *)
(* position of the run in the module-level code of src/corona.py.          *)
(*                                                                         *)
(* Text is modelled as a sequence of one-character strings; the token      *)
(* "N/A" stands for the three characters N, /, A (none of which occurs in  *)
(* any other token, so equality of texts is equality of token sequences).  *)
(***************************************************************************)
EXTENDS Integers, Sequences, FiniteSets, TLC

\* ------------------------------------------------------------------ bounds
MaxCellLen == 4
MaxArgLen == 3
MaxRows == 2

Strings(alphabet, n) == UNION {[1..k -> alphabet] : k \in 0..n}

\* ------------------------------------------------------------------ values
\* A cell value: None, an int, a float n / 10^d, or NaN (pandas' null).
None == [k |-> "None", n |-> 0, d |-> 0]
NaN == [k |-> "nan", n |-> 0, d |-> 0]
IntV(n) == [k |-> "int", n |-> n, d |-> 0]
RECURSIVE FloatV(_, _)
FloatV(n, d) ==
    IF d > 0 /\ n % 10 = 0 THEN FloatV(n \div 10, d - 1)
    ELSE [k |-> "float", n |-> n, d |-> d]

\* ------------------------------------------------------- Python built-ins
DigitChar == <<"0", "1", "2", "3", "4", "5", "6", "7", "8", "9">>
Digits == {DigitChar[i] : i \in 1..10}
DigitVal(c) == (CHOOSE i \in 1..10 : DigitChar[i] = c) - 1
Whitespace == {" ", "\n"}

RECURSIVE lstrip(_, _)
lstrip(s, chars) ==
    IF s # <<>> /\ Head(s) \in chars THEN lstrip(Tail(s), chars) ELSE s
RECURSIVE rstrip(_, _)
rstrip(s, chars) ==
    IF s # <<>> /\ s[Len(s)] \in chars
    THEN rstrip(SubSeq(s, 1, Len(s) - 1), chars) ELSE s
\* str.strip(chars): drops every leading and trailing character in chars
strip(s, chars) == rstrip(lstrip(s, chars), chars)
\* str.replace(c, '')
remove(s, c) == SelectSeq(s, LAMBDA x : x # c)

IsDigits(s) == s # <<>> /\ \A i \in 1..Len(s) : s[i] \in Digits
RECURSIVE DecVal(_)
DecVal(s) ==
    IF s = <<>> THEN 0
    ELSE 10 * DecVal(SubSeq(s, 1, Len(s) - 1)) + DigitVal(s[Len(s)])
Unsigned(s) == IF s # <<>> /\ Head(s) \in {"+", "-"} THEN Tail(s) ELSE s
Sign(s) == IF s # <<>> /\ Head(s) = "-" THEN -1 ELSE 1
\* int(s): surrounding whitespace and one sign are accepted, then digits
int_ok(s) == IsDigits(Unsigned(strip(s, Whitespace)))
int_val(s) ==
    Sign(strip(s, Whitespace)) * DecVal(Unsigned(strip(s, Whitespace)))
\* float(s): digits [. digits] or . digits, same whitespace and sign rule
DotAt(s) == IF \E i \in 1..Len(s) : s[i] = "."
            THEN CHOOSE i \in 1..Len(s) :
                     s[i] = "." /\ \A j \in 1..(i - 1) : s[j] # "."
            ELSE 0
IntPart(s) == IF DotAt(s) = 0 THEN s ELSE SubSeq(s, 1, DotAt(s) - 1)
FracPart(s) == IF DotAt(s) = 0 THEN <<>> ELSE SubSeq(s, DotAt(s) + 1, Len(s))
AllDigits(s) == \A i \in 1..Len(s) : s[i] \in Digits
RECURSIVE Pow10(_)
Pow10(d) == IF d = 0 THEN 1 ELSE 10 * Pow10(d - 1)
float_body_ok(b) ==
    /\ AllDigits(IntPart(b)) /\ AllDigits(FracPart(b))
    /\ Len(IntPart(b)) + Len(FracPart(b)) > 0
float_ok(s) == float_body_ok(Unsigned(strip(s, Whitespace)))
float_val(s) ==
    LET b == Unsigned(strip(s, Whitespace))
    IN  FloatV(Sign(strip(s, Whitespace))
                 * (DecVal(IntPart(b)) * Pow10(Len(FracPart(b)))
                    + DecVal(FracPart(b))),
               Len(FracPart(b)))

\* --------------------------------------------------------- cell normalizer
\* Outcome of normalising one cell: exit = TRUE is sys.exit(1).
Yield(v) == [exit |-> FALSE, val |-> v, text |-> <<>>]
YieldText(t) == [exit |-> FALSE, val |-> None, text |-> t]
SysExit1 == [exit |-> TRUE, val |-> None, text |-> <<>>]

zero_checker_nullzero(integer_string) ==
    IF integer_string \in {<<>>, <<"N/A">>} THEN Yield(IntV(0))
    ELSE IF int_ok(integer_string) THEN Yield(IntV(int_val(integer_string)))
    ELSE SysExit1
zero_checker(integer_string) ==
    IF integer_string \in {<<>>, <<"N/A">>} THEN Yield(None)
    ELSE IF int_ok(integer_string) THEN Yield(IntV(int_val(integer_string)))
    ELSE SysExit1

float_zero_checker(float_string) ==
    IF float_string \in {<<>>, <<"N/A">>} THEN Yield(None)
    ELSE IF float_ok(float_string) THEN Yield(float_val(float_string))
    ELSE SysExit1

StripChars == {"+", " ", "\n"}
TextColumns == {0, 12}
FloatColumns == {8, 9}
get_table_row(row_text, length) ==
    IF length \in TextColumns THEN YieldText(strip(row_text, StripChars))
    ELSE IF length \in FloatColumns
    THEN float_zero_checker(remove(strip(row_text, StripChars), ","))
    ELSE zero_checker(remove(strip(row_text, StripChars), ","))

\* ------------------------------------------------------ range arguments
\* str.rpartition(':'): split at the last ':' (head '' when there is none)
LastColon(s) == IF \E i \in 1..Len(s) : s[i] = ":"
                THEN CHOOSE i \in 1..Len(s) :
                         s[i] = ":" /\ \A j \in (i + 1)..Len(s) : s[j] # ":"
                ELSE 0
rpartition_head(s) == IF LastColon(s) = 0 THEN <<>>
                      ELSE SubSeq(s, 1, LastColon(s) - 1)
rpartition_tail(s) == IF LastColon(s) = 0 THEN s
                      ELSE SubSeq(s, LastColon(s) + 1, Len(s))

\* converter: '' -> None, otherwise int(input_string), which may raise
converter(input_string) ==
    IF input_string = <<>> THEN [raised |-> FALSE, val |-> None]
    ELSE IF int_ok(input_string)
    THEN [raised |-> FALSE, val |-> IntV(int_val(input_string))]
    ELSE [raised |-> TRUE, val |-> None]

Limits(st, lo, up) == [status |-> st, lower |-> lo, upper |-> up]
NoLimits == Limits("ok", None, None)
\* the try-block of the --news / --table range parsing; status is "ok",
\* "ValueError" (caught, PARSER.error) or "TypeError" (None + 1, uncaught)
parse_range(arg) ==
    LET lo == converter(rpartition_head(arg))
        up == converter(rpartition_tail(arg))
    IN  IF lo.raised THEN Limits("ValueError", None, None)
        ELSE IF up.raised THEN Limits("ValueError", None, None)
        ELSE IF lo.val # None
        THEN IF up.val = None THEN Limits("TypeError", None, None)
             ELSE Limits("ok", lo.val, IntV(up.val.n + 1))
        ELSE Limits("ok", None, up.val)

\* ------------------------------------------------------------ the website
\* One <tr> of the source table: the cells the run reads back later (Cases,
\* column 1, and Active, column 6), and its class attribute.  The Country
\* cell of the i-th row is Names[i].
Names == <<"World", "B", "C", "D">>
CasesCells == {<<>>, <<"+", "1", ",", "0", "0", "0">>, <<"x">>}
ActiveCells == {<<"0">>, <<"5">>}
RowClasses == {{}, {"total_row"}, {"total_row", "row_continent"}}
SiteRows == [cases : CasesCells, active : ActiveCells, class : RowClasses]
\* the news <div> of today: absent, or a list of <li> (text tokens, alert img)
NewsItem(t, a) == [text |-> t, alert |-> a]
NewsDivs == { [present |-> FALSE, items |-> <<>>],
              [present |-> TRUE,
               items |-> <<NewsItem(<<"w", "[source]">>, TRUE)>>] }
Pages == [rows : UNION {[1..k -> SiteRows] : k \in 0..MaxRows},
          newsdiv : NewsDivs]

\* -------------------------------------------------------------- get_news
CleanList == {"[source]", "[video]"}
news_text(item) ==
    LET cleaned == SelectSeq(item.text, LAMBDA w : w \notin CleanList)
    IN  IF item.alert THEN <<"⚠">> \o cleaned ELSE cleaned
get_news(div) == [i \in 1..Len(div.items) |-> news_text(div.items[i])]
\* lines 205-208: a missing <div> raises AttributeError, caught as []
news_or_empty(div) == IF div.present THEN get_news(div) ELSE <<>>

\* ------------------------------------------------------------- get_table
Record(c, cs, ac, cl) ==
    [Country |-> c, Cases |-> cs, Active |-> ac, Class |-> cl]
\* line 174: 'total_row' and 'row_continent' in classes
row_class(classes) ==
    IF "row_continent" \in classes THEN "Total" ELSE "None"
row_cells_exit(r) ==
    \/ get_table_row(r.cases, 1).exit
    \/ get_table_row(r.active, 6).exit
extract_row(rows, i) ==
    Record(Names[i], get_table_row(rows[i].cases, 1).val,
           get_table_row(rows[i].active, 6).val, row_class(rows[i].class))
\* DataFrame(...): a numeric column holding a null is a float column
IsNull(v) == v.k \in {"None", "nan"}
HasNull(recs, col) == \E i \in 1..Len(recs) : IsNull(recs[i][col])
AsFloat(v) == IF IsNull(v) THEN NaN ELSE FloatV(v.n, v.d)
Coerce(recs, col, v) == IF HasNull(recs, col) THEN AsFloat(v) ELSE v
DataFrame(recs) ==
    [i \in 1..Len(recs) |->
        Record(recs[i].Country, Coerce(recs, "Cases", recs[i].Cases),
               Coerce(recs, "Active", recs[i].Active), recs[i].Class)]
\* sort_values(by='Cases', ascending=False): nulls last, order of ties
\* unspecified (quicksort)
Perms(n) == {f \in [1..n -> 1..n] : \A i, j \in 1..n : f[i] = f[j] => i = j}
SortedByCases(t) ==
    \A i, j \in 1..Len(t) :
        i < j => \/ IsNull(t[j].Cases)
                 \/ ~IsNull(t[i].Cases) /\ t[i].Cases.n >= t[j].Cases.n
sort_values(df) ==
    {t \in {[i \in 1..Len(df) |-> df[f[i]]] : f \in Perms(Len(df))} :
        SortedByCases(t)}
get_table_exits(rows) == \E i \in 1..Len(rows) : row_cells_exit(rows[i])
get_table(rows) ==
    sort_values(DataFrame([i \in 1..Len(rows) |-> extract_row(rows, i)]))

\* DataFrame.to_json / pandas.read_json: NaN is written as null; a column
\* read back with a null in it is a float column again
JsonValue(v) == IF IsNull(v) THEN None ELSE v
to_json(df) ==
    [i \in 1..Len(df) |->
        Record(df[i].Country, JsonValue(df[i].Cases),
               JsonValue(df[i].Active), df[i].Class)]
read_json(js) == DataFrame(js)

\* ------------------------------------------------------------ cache file
Snapshot_nonews(t, nw, tb) == [time |-> t, news |-> <<>>, table |-> tb]
Snapshot(t, nw, tb) == [time |-> t, news |-> nw, table |-> tb]
NoSnapshot == Snapshot("", <<>>, <<>>)
Now == "2020-03-02 09:30"
OldTime == "2020-03-01 10:00"
OldRows ==
    << [cases |-> <<"1", ",", "0", "0", "0">>, active |-> <<"5">>,
        class |-> {}],
       [cases |-> <<>>, active |-> <<"0">>,
        class |-> {"total_row", "row_continent"}] >>
OldPage == [rows |-> OldRows,
            newsdiv |-> [present |-> FALSE, items |-> <<>>]]
OldSnapshot ==
    Snapshot(OldTime, <<<<"old">>>>,
             to_json(CHOOSE t \in get_table(OldRows) : TRUE))
File(k, snap) == [kind |-> k, data |-> snap]
CacheFiles == { File("absent", NoSnapshot), File("corrupt", NoSnapshot),
                File("json", OldSnapshot) }
Data(snap) == [none |-> FALSE, snap |-> snap]
NoData == [none |-> TRUE, snap |-> NoSnapshot]

\* ------------------------------------------------- get_data and overview
\* '{:n}'.format(n) under LC_NUMERIC: decimal digits, grouped by sep
RECURSIVE DigitsOf(_)
DigitsOf(n) == IF n < 10 THEN <<DigitChar[n + 1]>>
               ELSE Append(DigitsOf(n \div 10), DigitChar[(n % 10) + 1])
RECURSIVE Grouped(_, _)
Grouped(ds, sep) ==
    IF Len(ds) <= 3 \/ sep = "" THEN ds
    ELSE Grouped(SubSeq(ds, 1, Len(ds) - 3), sep) \o <<sep>>
         \o SubSeq(ds, Len(ds) - 2, Len(ds))
format_n(n, sep) ==
    IF n < 0 THEN <<"-">> \o Grouped(DigitsOf(-n), sep)
    ELSE Grouped(DigitsOf(n), sep)

Text(t) == [none |-> FALSE, text |-> t]
NoText == [none |-> TRUE, text |-> <<>>]
\* bool(x): None and 0 are false, NaN is true
Truthy(v) == v.k = "nan" \/ (v.k \in {"int", "float"} /\ v.n # 0)
\* get_data on a numeric column whose values are integral and below 10^6
\* (a float then prints without exponent); 'nan' is replaced by ''
get_data(v, sep) ==
    IF Truthy(v)
    THEN IF v.k = "nan" THEN Text(<<>>) ELSE Text(format_n(v.n, sep))
    ELSE NoText
\* get_data(...) or '-'
OrDash(r) == IF r.none \/ r.text = <<>> THEN <<"-">> ELSE r.text
get_total_cases(country_row, sep) == OrDash(get_data(country_row.Cases, sep))
get_active_cases(country_row, sep) ==
    OrDash(get_data(country_row.Active, sep))
\* get_closed_cases: int() of either text may raise ValueError
get_closed_cases(country_row, sep) ==
    LET total_cases == remove(get_total_cases(country_row, sep), ",")
        active_cases == remove(get_active_cases(country_row, sep), ",")
    IN  IF int_ok(total_cases) /\ int_ok(active_cases)
        THEN [raised |-> FALSE,
              text |-> format_n(int_val(total_cases) - int_val(active_cases),
                                sep)]
        ELSE [raised |-> TRUE, text |-> <<>>]

NoRecord == Record("", None, None, "None")
\* str.title() of the country argument
Title(name) == IF name = "b" THEN "B" ELSE name
Matches(tbl, name) == {i \in 1..Len(tbl) : tbl[i].Country = Title(name)}
Min(S) == CHOOSE x \in S : \A y \in S : x <= y

\* ------------------------------------------------------------------ state
\* site is the largest number of rows the table served by the site may have;
\* cache0 is the cache file as the run found it.
VARIABLES pc, argv, args_dict, thousands_sep, site, news_limits, table_limits,
          alerts_only, cache, cache0, soup, online_outbreak_table,
          outbreak_data, out, exit_code, exc, netAttempts, cacheReads,
          cacheWrites, table, total_row, row, report,
          cell_raw, cell_length, cell_out, cell_done

runvars == <<pc, argv, args_dict, thousands_sep, site, news_limits, table_limits,
             alerts_only, cache, cache0, soup, online_outbreak_table,
             outbreak_data, out, exit_code, exc, netAttempts, cacheReads,
             cacheWrites, table, total_row, row, report>>
cellvars == <<cell_raw, cell_length, cell_out, cell_done>>
vars == <<runvars, cellvars>>

Arg(s) == [given |-> TRUE, s |-> s]
NoArg == [given |-> FALSE, s |-> <<>>]
ArgAlphabet == {"1", ":", "a"}
RangeArgs == {NoArg} \cup {Arg(s) : s \in Strings(ArgAlphabet, MaxArgLen)}
Country(c) == [given |-> TRUE, name |-> c]
NoCountry == [given |-> FALSE, name |-> ""]
Msg(m, a) == [msg |-> m, arg |-> a]
EmptyPage == [rows |-> <<>>, newsdiv |-> [present |-> FALSE, items |-> <<>>]]

\* the keys argparse leaves in vars(ARGS): argument_default=SUPPRESS drops
\* every option not given; --sort has an explicit default
Keys(a) == {"sort"} \cup (IF a.news.given THEN {"news"} ELSE {})
           \cup (IF a.table.given THEN {"table"} ELSE {})
           \cup (IF a.offline THEN {"offline"} ELSE {})
           \cup (IF a.country.given THEN {"country"} ELSE {})

InitRun(newsArgs, tableArgs, countries, files, rows) ==
    /\ pc = "ParseNews"
    /\ site = rows
    /\ argv \in [news : newsArgs, table : tableArgs, offline : BOOLEAN,
                 country : countries]
    /\ args_dict = Keys(argv)
    /\ thousands_sep \in {"", ","}
    /\ news_limits = NoLimits
    /\ table_limits = NoLimits
    /\ alerts_only = FALSE
    /\ cache \in files
    /\ cache0 = cache
    /\ soup = EmptyPage
    /\ online_outbreak_table = <<>>
    /\ outbreak_data = NoData
    /\ out = <<>>
    /\ exit_code = -1
    /\ exc = "none"
    /\ netAttempts = 0
    /\ cacheReads = 0
    /\ cacheWrites = 0
    /\ table = <<>>
    /\ total_row = NoRecord
    /\ row = NoRecord
    /\ report = <<>>

CellIdle ==
    /\ cell_raw = <<>>
    /\ cell_length = 1
    /\ cell_out = Yield(None)
    /\ cell_done = TRUE

Init ==
    /\ InitRun({NoArg, Arg(<<>>)}, {NoArg},
               {NoCountry, Country("b")}, CacheFiles, MaxRows)
    /\ CellIdle

InitRange ==
    /\ InitRun(RangeArgs, RangeArgs, {NoCountry},
               {File("absent", NoSnapshot), File("json", OldSnapshot)},
               1)
    /\ CellIdle

\* ---------------------------------------------------------------- actions
Exit(code, e, msgs) ==
    /\ pc' = "Exited"
    /\ exit_code' = code
    /\ exc' = e
    /\ out' = out \o msgs

\* lines 245-260: the --news range
ParseNewsRange ==
    /\ pc = "ParseNews"
    /\ LET r == parse_range(argv.news.s)
       IN  IF ~argv.news.given
           THEN /\ pc' = "ParseTable"
                /\ UNCHANGED <<news_limits, alerts_only, exit_code, exc, out>>
           ELSE IF argv.news.s = <<"a">>
           THEN /\ pc' = "ParseTable"
                /\ news_limits' = NoLimits
                /\ alerts_only' = TRUE
                /\ UNCHANGED <<exit_code, exc, out>>
           ELSE IF r.status = "ok"
           THEN /\ pc' = "ParseTable"
                /\ news_limits' = r
                /\ UNCHANGED <<alerts_only, exit_code, exc, out>>
           ELSE IF r.status = "ValueError"
           THEN /\ Exit(2, "none", <<Msg("usage error", "--news")>>)
                /\ UNCHANGED <<news_limits, alerts_only>>
           ELSE /\ Exit(1, r.status, <<>>)
                /\ UNCHANGED <<news_limits, alerts_only>>
    /\ UNCHANGED <<argv, args_dict, thousands_sep, site, table_limits, cache,
                   cache0, soup, online_outbreak_table, outbreak_data,
                   netAttempts, cacheReads, cacheWrites, table, total_row,
                   row, report, cellvars>>

\* lines 262-271: the --table range
ParseTableRange ==
    /\ pc = "ParseTable"
    /\ LET r == parse_range(argv.table.s)
       IN  IF ~argv.table.given
           THEN /\ pc' = "Start"
                /\ UNCHANGED <<table_limits, exit_code, exc, out>>
           ELSE IF r.status = "ok"
           THEN /\ pc' = "Start"
                /\ table_limits' = r
                /\ UNCHANGED <<exit_code, exc, out>>
           ELSE IF r.status = "ValueError"
           THEN /\ Exit(2, "none", <<Msg("usage error", "--table")>>)
                /\ UNCHANGED table_limits
           ELSE /\ Exit(1, r.status, <<>>)
                /\ UNCHANGED table_limits
    /\ UNCHANGED <<argv, args_dict, thousands_sep, site, news_limits, alerts_only,
                   cache, cache0, soup, online_outbreak_table, outbreak_data,
                   netAttempts, cacheReads, cacheWrites, table, total_row,
                   row, report, cellvars>>

\* lines 273-277: forced-offline reads the cache, otherwise fetch first
Orchestrate_fetchfirst ==
    /\ pc = "Start"
    /\ pc' = "Fetching"
    /\ args_dict' = args_dict \ {"offline"}
    /\ UNCHANGED <<argv, thousands_sep, site, news_limits, table_limits,
                   alerts_only, cache, cache0, soup, online_outbreak_table,
                   outbreak_data, out, exit_code, exc, netAttempts,
                   cacheReads, cacheWrites, table, total_row, row, report,
                   cellvars>>
Orchestrate ==
    /\ pc = "Start"
    /\ IF "offline" \in args_dict
       THEN /\ pc' = "LoadingCache"
            /\ args_dict' = args_dict \ {"offline"}
       ELSE /\ pc' = "Fetching"
            /\ UNCHANGED args_dict
    /\ UNCHANGED <<argv, thousands_sep, site, news_limits, table_limits,
                   alerts_only, cache, cache0, soup, online_outbreak_table,
                   outbreak_data, out, exit_code, exc, netAttempts,
                   cacheReads, cacheWrites, table, total_row, row, report,
                   cellvars>>

\* lines 194-201 and 221-223: the one requests.get; a ConnectionError makes
\* get_online_outbreak_data return None, and `or` calls the cache load
Fetch ==
    /\ pc = "Fetching"
    /\ netAttempts' = netAttempts + 1
    /\ \/ /\ \E page \in Pages : Len(page.rows) <= site /\ soup' = page
          /\ pc' = "Extracting"
          /\ UNCHANGED out
       \/ /\ out' = Append(out, Msg("Network issue detected.", ""))
          /\ pc' = "LoadingCache"
          /\ UNCHANGED soup
    /\ UNCHANGED <<argv, args_dict, thousands_sep, site, news_limits, table_limits,
                   alerts_only, cache, cache0, online_outbreak_table,
                   outbreak_data, exit_code, exc, cacheReads, cacheWrites,
                   table, total_row, row, report, cellvars>>

\* line 203: get_table(soup); an unparseable numeric cell is sys.exit(1)
ExtractTable ==
    /\ pc = "Extracting"
    /\ IF get_table_exits(soup.rows)
       THEN /\ Exit(1, "none", <<Msg("Something went wrong here.", "")>>)
            /\ UNCHANGED online_outbreak_table
       ELSE /\ \E t \in get_table(soup.rows) : online_outbreak_table' = t
            /\ pc' = "Saving"
            /\ UNCHANGED <<exit_code, exc, out>>
    /\ UNCHANGED <<argv, args_dict, thousands_sep, site, news_limits, table_limits,
                   alerts_only, cache, cache0, soup, outbreak_data,
                   netAttempts, cacheReads, cacheWrites, table, total_row,
                   row, report, cellvars>>

\* lines 205-220: news, the snapshot, and the cache file written whole
SaveSnapshot ==
    /\ pc = "Saving"
    /\ LET online_outbreak_data ==
               Snapshot(Now, news_or_empty(soup.newsdiv),
                        to_json(online_outbreak_table))
       IN  /\ cache' = File("json", online_outbreak_data)
           /\ outbreak_data' = Data(online_outbreak_data)
    /\ cacheWrites' = cacheWrites + 1
    /\ pc' = "CheckData"
    /\ UNCHANGED <<argv, args_dict, thousands_sep, site, news_limits, table_limits,
                   alerts_only, cache0, soup, online_outbreak_table, out,
                   exit_code, exc, netAttempts, cacheReads, table, total_row,
                   row, report, cellvars>>

\* lines 226-235: get_offline_outbreak_data; only FileNotFoundError is
\* caught, json.load of anything else than JSON raises JSONDecodeError
LoadCache ==
    /\ pc = "LoadingCache"
    /\ cacheReads' = cacheReads + 1
    /\ IF cache.kind = "absent"
       THEN /\ out' = Append(out, Msg("No offline data found.", ""))
            /\ outbreak_data' = NoData
            /\ pc' = "CheckData"
            /\ UNCHANGED <<exit_code, exc>>
       ELSE IF cache.kind = "corrupt"
       THEN /\ Exit(1, "JSONDecodeError", <<>>)
            /\ UNCHANGED outbreak_data
       ELSE /\ out' = Append(out, Msg("Offline data is from",
                                      cache.data.time))
            /\ outbreak_data' = Data(cache.data)
            /\ pc' = "CheckData"
            /\ UNCHANGED <<exit_code, exc>>
    /\ UNCHANGED <<argv, args_dict, thousands_sep, site, news_limits, table_limits,
                   alerts_only, cache, cache0, soup, online_outbreak_table,
                   netAttempts, cacheWrites, table, total_row, row, report,
                   cellvars>>

\* lines 279-280
CheckData_goon ==
    /\ pc = "CheckData"
    /\ pc' = "ReadTable"
    /\ UNCHANGED <<argv, args_dict, thousands_sep, site, news_limits, table_limits,
                   alerts_only, cache, cache0, soup, online_outbreak_table,
                   outbreak_data, netAttempts, cacheReads, cacheWrites,
                   table, total_row, row, report, cellvars, exit_code, exc,
                   out>>
CheckData ==
    /\ pc = "CheckData"
    /\ IF outbreak_data.none
       THEN Exit(1, "none", <<>>)
       ELSE /\ pc' = "ReadTable"
            /\ UNCHANGED <<exit_code, exc, out>>
    /\ UNCHANGED <<argv, args_dict, thousands_sep, site, news_limits, table_limits,
                   alerts_only, cache, cache0, soup, online_outbreak_table,
                   outbreak_data, netAttempts, cacheReads, cacheWrites,
                   table, total_row, row, report, cellvars>>

\* lines 301-305: the table is read back and its first row is the total;
\* iloc[0] of an empty table raises IndexError
ReadTable ==
    /\ pc = "ReadTable"
    /\ args_dict' = args_dict \ {"sort"}
    /\ table' = read_json(outbreak_data.snap.table)
    /\ IF table' = <<>>
       THEN /\ Exit(1, "IndexError", <<>>)
            /\ UNCHANGED total_row
       ELSE /\ total_row' = table'[1]
            /\ pc' = "GetRow"
            /\ UNCHANGED <<exit_code, exc, out>>
    /\ UNCHANGED <<argv, thousands_sep, site, news_limits, table_limits,
                   alerts_only, cache, cache0, soup, online_outbreak_table,
                   outbreak_data, netAttempts, cacheReads, cacheWrites, row,
                   report, cellvars>>

\* lines 419-431: get_row(args_dict.get('country'))
GetRow ==
    /\ pc = "GetRow"
    /\ IF argv.country.given /\ argv.country.name # ""
       THEN IF Matches(table, argv.country.name) # {}
            THEN /\ row' = table[Min(Matches(table, argv.country.name))]
                 /\ UNCHANGED out
            ELSE /\ row' = total_row
                 /\ out' = Append(out, Msg("Country not found.", ""))
       ELSE /\ row' = total_row
            /\ UNCHANGED out
    /\ pc' = "Output"
    /\ UNCHANGED <<argv, args_dict, thousands_sep, site, news_limits, table_limits,
                   alerts_only, cache, cache0, soup, online_outbreak_table,
                   outbreak_data, exit_code, exc, netAttempts, cacheReads,
                   cacheWrites, table, total_row, report, cellvars>>

IsOverview == args_dict = {} \/ args_dict = {"country"}
Situation(r, sep) ==
    [total |-> get_total_cases(r, sep), active |-> get_active_cases(r, sep),
     closed |-> get_closed_cases(r, sep).text]

\* lines 433-435 with get_situation: the default overview, then sys.exit()
Overview ==
    /\ pc = "Output"
    /\ IsOverview
    /\ IF get_closed_cases(row, thousands_sep).raised
       THEN /\ Exit(1, "ValueError", <<>>)
            /\ UNCHANGED report
       ELSE /\ Exit(0, "none", <<Msg("overview", "")>>)
            /\ report' = <<Situation(row, thousands_sep)>>
    /\ UNCHANGED <<argv, args_dict, thousands_sep, site, news_limits, table_limits,
                   alerts_only, cache, cache0, soup, online_outbreak_table,
                   outbreak_data, netAttempts, cacheReads, cacheWrites,
                   table, total_row, row, cellvars>>

\* lines 437-521: the table and the news, when asked for, then the end of
\* the script
PrintSelected ==
    /\ pc = "Output"
    /\ ~IsOverview
    /\ Exit(0, "none",
            (IF "table" \in args_dict THEN <<Msg("table", "")>> ELSE <<>>)
            \o (IF "news" \in args_dict
                THEN IF outbreak_data.snap.news # <<>>
                     THEN <<Msg("News from", outbreak_data.snap.time)>>
                     ELSE <<Msg("No news available.", "")>>
                ELSE <<>>))
    /\ UNCHANGED <<argv, args_dict, thousands_sep, site, news_limits, table_limits,
                   alerts_only, cache, cache0, soup, online_outbreak_table,
                   outbreak_data, netAttempts, cacheReads, cacheWrites,
                   table, total_row, row, report, cellvars>>

Next ==
    \/ ParseNewsRange
    \/ ParseTableRange
    \/ Orchestrate
    \/ Fetch
    \/ ExtractTable
    \/ SaveSnapshot
    \/ LoadCache
    \/ CheckData
    \/ ReadTable
    \/ GetRow
    \/ Overview
    \/ PrintSelected

Spec == Init /\ [][Next]_vars
SpecRange == InitRange /\ [][Next]_vars

\* ------------------------------------------- the cell normalizer on its own
CellAlphabet == {"+", " ", "\n", ",", "0", "1", ".", "N/A", "x"}
InitCell ==
    /\ InitRun({NoArg}, {NoArg}, {NoCountry}, {File("absent", NoSnapshot)},
               1)
    /\ ~argv.offline
    /\ thousands_sep = ""
    /\ cell_raw \in Strings(CellAlphabet, MaxCellLen)
    /\ cell_length \in {1, 8}
    /\ cell_out = Yield(None)
    /\ cell_done = FALSE

NormalizeCell ==
    /\ ~cell_done
    /\ cell_out' = get_table_row(cell_raw, cell_length)
    /\ cell_done' = TRUE
    /\ UNCHANGED <<cell_raw, cell_length, runvars>>

NextCell == NormalizeCell
SpecCell == InitCell /\ [][NextCell]_vars

\* ------------------------------------------------------------- properties
Range(q) == {q[i] : i \in 1..Len(q)}
Max(S) == CHOOSE x \in S : \A y \in S : x >= y
NetworkFailed == Msg("Network issue detected.", "") \in Range(out)
ParseFailed == Msg("Something went wrong here.", "") \in Range(out)
CacheMissingReported == Msg("No offline data found.", "") \in Range(out)
\* forced-offline mode and the orchestrator has run (it deletes the key)
OfflineStarted == argv.offline /\ "offline" \notin args_dict
BeforeFetchStep == {"ParseNews", "ParseTable", "Start"}

\* C1: with the forced-offline flag no network retrieval is ever attempted:
\* the orchestrator steps from Start to the cache load and the run is never
\* at the fetch, the extraction or the cache write.
C1_OfflineSkipsFetching ==
    [][argv.offline =>
         /\ netAttempts' = 0
         /\ pc' \notin {"Fetching", "Extracting", "Saving"}
         /\ (pc = "Start" => pc' = "LoadingCache")]_vars
C1_Witness ==
    argv.offline /\ pc = "CheckData" /\ cacheReads = 1 /\ netAttempts = 0

\* C2 (as claimed): in default mode there is one network attempt and never a
\* second; after a connectivity error the run is at the cache load or has
\* done it; and whenever the cache file exists the run goes on with the
\* stored snapshot as its data and has reported the stored timestamp.
C2_FallbackUsesStoredSnapshot ==
    ~argv.offline =>
        /\ netAttempts <= 1
        /\ (pc \notin BeforeFetchStep \cup {"Fetching", "Exited"}
               => netAttempts = 1)
        /\ (NetworkFailed =>
               /\ netAttempts = 1
               /\ pc = "LoadingCache" \/ cacheReads = 1)
        /\ (NetworkFailed /\ cacheReads = 1 /\ cache0.kind # "absent" =>
               /\ exc = "none"
               /\ outbreak_data = Data(cache0.data)
               /\ ~outbreak_data.none
               /\ Msg("Offline data is from", cache0.data.time)
                      \in Range(out))

\* C3: when the cache file is absent and the run is forced offline or its
\* network attempt failed, the run only loads the cache, reports that it
\* is missing and exits with status 1: no table is read, no row looked up,
\* nothing printed, the cache never written.
NoDatasetObtainable ==
    cache0.kind = "absent" /\ (OfflineStarted \/ NetworkFailed)
C3_NoDataExitsNonZero ==
    NoDatasetObtainable =>
        /\ pc \in {"LoadingCache", "CheckData", "Exited"}
        /\ (pc # "LoadingCache" => CacheMissingReported /\ outbreak_data.none)
        /\ (pc = "Exited" => exit_code = 1 /\ exc = "none")
        /\ table = <<>> /\ total_row = NoRecord /\ row = NoRecord
        /\ report = <<>>
        /\ \A m \in Range(out) :
               m.msg \in {"Network issue detected.", "No offline data found."}
        /\ cacheWrites = 0 /\ cache = cache0
C3_Witness ==
    /\ NoDatasetObtainable /\ NetworkFailed
    /\ pc = "Exited" /\ exit_code = 1 /\ CacheMissingReported

\* C4 (as claimed): a run that has to rely on a cache file whose content
\* does not parse ends in the Failed state: exit status non-zero, a message
\* about the cache, and no unhandled error.
C4_CorruptCacheFailsCleanly ==
    /\ cache0.kind = "corrupt"
    /\ OfflineStarted \/ NetworkFailed
    /\ pc = "Exited"
    => /\ exit_code # 0
       /\ exc = "none"
       /\ CacheMissingReported

\* C5: the cache file differs from what the run found only after a
\* successful fetch whose table and news extraction completed, and then it
\* holds the whole new snapshot (time, every news item, every row); a
\* forced-offline run, a run whose fetch failed and a run that stopped on
\* an unparseable cell end with the cache file as they found it.
FetchCompleted ==
    /\ ~argv.offline /\ netAttempts = 1
    /\ ~NetworkFailed /\ ~ParseFailed
    /\ pc \notin BeforeFetchStep \cup {"Fetching", "Extracting", "Saving"}
WholeSnapshot(f) ==
    /\ f.kind = "json"
    /\ f.data.time = Now
    /\ Len(f.data.news) =
           (IF soup.newsdiv.present THEN Len(soup.newsdiv.items) ELSE 0)
    /\ Len(f.data.table) = Len(soup.rows)
    /\ \A i \in 1..Len(soup.rows) :
           \E j \in 1..Len(f.data.table) : f.data.table[j].Country = Names[i]
    /\ outbreak_data = Data(f.data)
C5_CacheChangesOnlyOnSuccess ==
    /\ (cache # cache0 \/ cacheWrites > 0 =>
           FetchCompleted /\ WholeSnapshot(cache) /\ cacheWrites = 1)
    /\ (pc = "Exited" /\ (argv.offline \/ NetworkFailed \/ ParseFailed) =>
           cache = cache0 /\ cacheWrites = 0)
C5_Witness ==
    /\ pc = "Exited" /\ cache # cache0 /\ cacheWrites = 1
    /\ cache0.kind = "json" /\ Len(cache.data.news) = 1
    /\ Len(cache.data.table) = 2

\* the range grammar: digits, optionally a ':' and digits, either side
\* possibly empty
ColonCount(s) == Cardinality({i \in 1..Len(s) : s[i] = ":"})
GoodRange(s) ==
    /\ \A i \in 1..Len(s) : s[i] \in Digits \cup {":"}
    /\ ColonCount(s) <= 1
\* the four forms 'm:n', ':n', 'm:' and 'm'
InForm(s) == GoodRange(s) /\ \E i \in 1..Len(s) : s[i] \in Digits
InvalidNews == argv.news.given /\ ~GoodRange(argv.news.s)
                   /\ argv.news.s # <<"a">>
InvalidTable == argv.table.given /\ ~GoodRange(argv.table.s)

\* C6 (as claimed): a run with a --news or --table argument of invalid
\* range syntax never fetches and never reads or writes the cache, and it
\* ends with the usage error (argparse's exit status 2).
C6_InvalidRangeIsUsageError ==
    InvalidNews \/ InvalidTable =>
        /\ netAttempts = 0 /\ cacheReads = 0 /\ cacheWrites = 0
        /\ pc \in {"ParseNews", "ParseTable", "Exited"}
        /\ (pc = "Exited" =>
               /\ exit_code = 2 /\ exc = "none"
               /\ \E m \in Range(out) : m.msg = "usage error")

\* C7 (as claimed): when every range argument given has one of the four
\* forms, range parsing raises nothing, and the run gets to the fetch step.
C7_FourFormsAccepted ==
    /\ argv.news.given \/ argv.table.given
    /\ argv.news.given => InForm(argv.news.s)
    /\ argv.table.given => InForm(argv.table.s)
    => /\ exc # "TypeError"
       /\ (pc = "Exited" => netAttempts + cacheReads >= 1)
       /\ \A m \in Range(out) : m.msg # "usage error"

\* C8 (as claimed): an assembled table has exactly one record marked as
\* the total, the record used as the global total is that one, and rows
\* with no or several total markers give no table.
Marked(t) == {i \in 1..Len(t) : t[i].Class = "Total"}
C8_ExactlyOneTotal ==
    /\ (pc = "Saving" /\ online_outbreak_table # <<>> =>
           Cardinality(Marked(online_outbreak_table)) = 1)
    /\ (pc \in {"GetRow", "Output"} => total_row.Class = "Total")

\* C10 (as claimed): the default overview of any record of the loaded table
\* completes and reports closed cases as total minus active, a null
\* counting as nothing.
Amount(v) == IF IsNull(v) THEN 0 ELSE v.n
C10_OverviewCompletes ==
    pc = "Exited" /\ IsOverview /\ row # NoRecord =>
        /\ exc = "none" /\ exit_code = 0
        /\ Len(report) = 1
        /\ remove(report[1].closed, ",") =
               format_n(Amount(row.Cases) - Amount(row.Active), "")

\* What a numeric cell text denotes, stated without the normalizer's code:
\* the text between its outermost characters that are not stripped, commas
\* left out; read as an optionally signed decimal numeral.
Between(raw, lead, trail) ==
    LET a == {i \in 1..Len(raw) : raw[i] \notin lead}
        b == {i \in 1..Len(raw) : raw[i] \notin trail}
    IN  IF a = {} THEN <<>> ELSE SubSeq(raw, Min(a), Max(b))
RECURSIVE NoCommas(_)
NoCommas(t) ==
    IF t = <<>> THEN <<>>
    ELSE IF Head(t) = "," THEN NoCommas(Tail(t))
    ELSE <<Head(t)>> \o NoCommas(Tail(t))
Numeral(t) ==
    LET u == Between(t, Whitespace, Whitespace)
    IN  IF u # <<>> /\ u[1] \in {"+", "-"} THEN SubSeq(u, 2, Len(u)) ELSE u
RECURSIVE PlaceSum(_, _)
PlaceSum(u, i) ==
    IF i > Len(u) THEN 0
    ELSE DigitVal(u[i]) * Pow10(Len(u) - i) + PlaceSum(u, i + 1)
IsInteger(t) ==
    Numeral(t) # <<>> /\ \A i \in 1..Len(Numeral(t)) : Numeral(t)[i] \in Digits
IsDecimal(t) ==
    LET u == Numeral(t)
        dots == {i \in 1..Len(u) : u[i] = "."}
    IN  /\ Cardinality(dots) <= 1
        /\ \A i \in 1..Len(u) : u[i] \in Digits \cup {"."}
        /\ \E i \in 1..Len(u) : u[i] \in Digits
DecimalOf(t) ==
    LET u == Numeral(t)
        dots == {i \in 1..Len(u) : u[i] = "."}
        digs == SelectSeq(u, LAMBDA c : c # ".")
    IN  FloatV(PlaceSum(digs, 1),
               IF dots = {} THEN 0 ELSE Len(u) - Max(dots))
Denoted(cleaned, length) ==
    IF cleaned \in {<<>>, <<"N/A">>} THEN Yield(None)
    ELSE IF length \in FloatColumns
    THEN IF IsDecimal(cleaned) THEN Yield(DecimalOf(cleaned)) ELSE SysExit1
    ELSE IF IsInteger(cleaned) THEN Yield(IntV(PlaceSum(Numeral(cleaned), 1)))
    ELSE SysExit1

====
